---- MODULE Spec2Model ----
(***************************************************************************)
(* Scan orchestration of SeoAgentPro:                                      *)
(*   - ReActOrchestrator.execute / execute_stream   (autonomous loop)      *)
(*   - UnifiedScanOrchestrator.execute / execute_stream (mode pipeline)    *)
(*   - GraphAuditOrchestrator.run_audit_stream      (graph audit)          *)
(* One behaviour is one run.  The external collaborators (language model,  *)
(* tools, network) are nondeterministic choices over the outcomes their    *)
(* code can produce.                                                       *)
(***************************************************************************)
EXTENDS Integers, Sequences, FiniteSets, TLC

VARIABLES
    orch,               \* which orchestrator runs: "react", "unified", "graph"
    streaming,          \* TRUE: the generator API, FALSE: the buffered API
    mode,               \* pipeline mode (unified only)
    max_iterations,     \* ReActOrchestrator.max_iterations
    pc,                 \* position of the run
    result,             \* what the caller got: "pending", "returned", "raised"
    iteration,          \* state["iteration"]
    completed_actions,  \* state["completed_actions"]
    findings,           \* state["findings"]: tool name -> stored value
    total_cost_estimate,\* state["total_cost_estimate"]
    reasoning_log,      \* self.reasoning_log
    decision,           \* the local variable decision of the loop
    llm_log,            \* history: every answer of self.llm.invoke
    tool_log,           \* history: every call of _run_tool and its outcome
    node_idx,           \* index of the next node / phase of the pipeline
    logs,               \* state["logs"]
    seo_data,           \* state["seo_data"]: "empty", "data", "error"
    node_log,           \* history: every node / phase invoked and its outcome
    node_state,         \* pipeline: node -> what it left in self.state
    events,             \* the SSE events yielded so far
    report,             \* <<>> or <<the compiled final report / done payload>>
    scrape_cache,       \* scraper._scrape_cache: entries in insertion order
    now,                \* time.time(), in seconds
    ticks,              \* how many times the clock has advanced
    spc,                \* position of the scan inside smart_scrape_url
    cur,                \* locals of the smart_scrape_url call in progress
    calls,              \* history: every finished smart_scrape_url call
    op,                 \* history: the last _cache_get / _cache_set performed
    returned,           \* the dict the last call returned to its caller
    th,                 \* concurrent scans: thread -> position and locals
    fetch_fn,           \* which fetcher runs
    playwright_available, \* graph_tools.PLAYWRIGHT_AVAILABLE
    retries,            \* scrape_url's max_retries argument
    fetch_pc,           \* position of the fetch
    fetch_attempt,      \* scrape_url's loop variable attempt
    tiers,              \* history: every transfer attempted and its outcome
    fetch_result,       \* what the fetcher returns
    g_fn,               \* which execute_stream generator: "unified", "react"
    g_mode,             \* its mode argument
    g_max,              \* max_iterations of its ReActOrchestrator
    g_pos,              \* the yield the generator is suspended at
    g_i,                \* index of the current node / state["iteration"]
    g_dec,              \* the local variable decision
    started,            \* history: the steps that were started
    finished,           \* history: the steps that ran to their end
    delivered,          \* the events the caller has received
    connected,          \* TRUE while the caller keeps consuming
    kw_text,            \* parallel_keyword_analysis: my_text, comp_text
    kw_task,            \* the two async_extract_keywords coroutines
    kw_order,           \* history: the order in which they finished
    kw_pair,            \* the returned pair
    kw_pc,              \* position of parallel_keyword_analysis
    second_run,         \* TRUE once the orchestrator object is used again
    conversations,      \* chat_agent._conversations
    chat                \* the chat_stream generator in flight

vars == <<orch, streaming, mode, max_iterations, pc, result, iteration,
          completed_actions, findings, total_cost_estimate, reasoning_log,
          decision, llm_log, tool_log, node_idx, logs, seo_data, node_log,
          node_state, events, report, scrape_cache, now, ticks, spc, cur,
          calls, op, returned, th, fetch_fn, playwright_available, retries,
          fetch_pc, fetch_attempt, tiers, fetch_result, g_fn, g_mode, g_max,
          g_pos, g_i, g_dec, started, finished, delivered, connected,
          kw_text, kw_task, kw_order, kw_pair, kw_pc, second_run,
          conversations, chat>>

reactVars == <<iteration, completed_actions, findings, total_cost_estimate,
               reasoning_log, decision, llm_log, tool_log>>

pipeVars == <<node_idx, logs, seo_data, node_log, node_state>>

inputVars == <<orch, streaming, mode, max_iterations>>

cacheVars == <<scrape_cache, now, ticks, spc, cur, calls, op, returned, th>>

runVars == <<inputVars, reactVars, pipeVars, pc, result, events, report>>

fetchVars == <<fetch_fn, playwright_available, retries, fetch_pc,
               fetch_attempt, tiers, fetch_result>>

\* The variables of the parts that are neither an orchestrator run nor the
\* scrape cache.
genVars == <<g_fn, g_mode, g_max, g_pos, g_i, g_dec, started, finished,
             delivered, connected>>

kwVars == <<kw_text, kw_task, kw_order, kw_pair, kw_pc>>

chatVars == <<conversations, chat>>

otherVars == <<fetchVars, genVars, kwVars, second_run, chatVars>>

notChatVars == <<runVars, cacheVars, fetchVars, genVars, kwVars, second_run>>

notFetchVars == <<runVars, cacheVars, genVars, kwVars, second_run,
                chatVars>>

notGenVars == <<runVars, cacheVars, fetchVars, kwVars, second_run,
                chatVars>>

notKwVars == <<runVars, cacheVars, fetchVars, genVars, second_run,
                chatVars>>

\* Largest max_iterations explored.
MaxIterations == 3

----------------------------------------------------------------------------
(* Sequence helpers *)

Range(s) == {s[i] : i \in 1..Len(s)}

Last(s) == s[Len(s)]

----------------------------------------------------------------------------
(* ReActOrchestrator: tool registry *)

AVAILABLE_TOOLS ==
    {"scrape_url", "detect_seo_issues", "run_technical_checks",
     "analyze_performance", "analyze_competitors", "find_top_competitors",
     "analyze_authority", "optimize_keywords", "generate_fixes",
     "create_seo_strategy", "create_roadmap", "calculate_score"}

\* AVAILABLE_TOOLS[t]["cost"]
ToolCostClass(t) ==
    CASE t \in {"scrape_url", "detect_seo_issues", "calculate_score"} -> "low"
      [] t \in {"run_technical_checks", "analyze_authority",
                "optimize_keywords", "generate_fixes"} -> "medium"
      [] t \in {"analyze_performance", "analyze_competitors",
                "create_seo_strategy", "create_roadmap"} -> "high"
      [] OTHER -> "very_high"

\* cost_map of _execute_action
cost_map(c) ==
    CASE c = "low" -> 1
      [] c = "medium" -> 2
      [] c = "high" -> 4
      [] c = "very_high" -> 8
      [] OTHER -> 2

\* The outcomes _run_tool(t) can have.
\*   "ok"           a result dict
\*   "ok_notitle"   scrape_url only: a result dict whose "title" is None
\*   "error_marker" a returned dict {"error": ...}
\*   "raise"        an exception
\* The helpers imported by the branches analyze_competitors,
\* find_top_competitors, create_seo_strategy, create_roadmap and
\* calculate_score are not defined by the modules they are imported from, so
\* the import statement of these branches raises.
RunToolOutcomes(t) ==
    CASE t = "scrape_url" -> {"ok", "ok_notitle", "error_marker", "raise"}
      [] t \in {"analyze_authority", "optimize_keywords"} ->
             {"ok", "error_marker", "raise"}
      [] t \in {"analyze_competitors", "find_top_competitors",
                "create_seo_strategy", "create_roadmap",
                "calculate_score"} -> {"raise"}
      [] OTHER -> {"ok", "raise"}

\* The tools whose branch of _run_tool reaches the read of
\* findings["scrape_url"] (the branches whose import raises never reach it).
ReadsScraped ==
    {"detect_seo_issues", "run_technical_checks", "analyze_authority",
     "optimize_keywords", "generate_fixes"}

\* self.state["findings"].get("scrape_url", {}): the stored value, or the
\* default {} when the key is missing.
ScrapedInput(f) ==
    IF "scrape_url" \in DOMAIN f THEN f["scrape_url"] ELSE "default"

\* What _run_tool(t) hands to the helper as the scraped page.
ToolInput(t, f) == IF t \in ReadsScraped THEN ScrapedInput(f) ELSE "unused"

\* The value _execute_action leaves in findings[action] for an outcome.
StoredValue(out) == IF out = "raise" THEN "exception_record" ELSE out

----------------------------------------------------------------------------
(* Events *)

\* One yielded SSE event: sse(event, data).  For a "log" event step and
\* status are the fields of its payload, for the others step names the tool
\* or node the payload comes from.
Ev(e, step, status) == [ev |-> e, step |-> step, status |-> status]

LogEv(step, status) == Ev("log", step, status)

\* What "yield" does: the buffered API has no event stream.
Emit(evs) == IF streaming THEN events \o evs ELSE events

TerminalEvents == {"done", "error"}

----------------------------------------------------------------------------
(* ReActOrchestrator: the decision *)

\* decision is None
NoDecision == [kind |-> "none", next_action |-> "", stop_after |-> FALSE]

\* decision is the empty dict {}
EmptyDecision == [kind |-> "empty", next_action |-> "", stop_after |-> FALSE]

\* A next_action that is a JSON list or object: not hashable.
Unhashable == "<unhashable>"

\* The next_action values the language model is let to answer.
DecisionActions ==
    {"scrape_url", "detect_seo_issues", "analyze_authority", "calculate_score",
     "unknown_tool", "STOP", Unhashable}

\* The answers of self.llm.invoke(messages):
\*   llm_raise     the call raises
\*   malformed     response.content is not JSON
\*   non_object    response.content is JSON, but not an object
\*   empty_object  response.content is {}
\*   object        a JSON object with next_action and stop_after
LLMResponses ==
    [kind : {"llm_raise", "malformed", "non_object", "empty_object"},
     next_action : {""}, stop_after : {FALSE}]
    \cup
    [kind : {"object"}, next_action : DecisionActions, stop_after : BOOLEAN]

\* _summarize_findings raises: scraped.get('title', 'N/A')[:50] with a
\* scrape result whose title is None (extract_seo_elements_pure sets
\* "title": None for a page without <title>).
SummarizeRaises(f) ==
    "scrape_url" \in DOMAIN f /\ f["scrape_url"] = "ok_notitle"

\* Variant of ParseFallback: the fallback names a tool and goes on.
ParseFallback_Continue ==
    [kind |-> "object", next_action |-> "scrape_url", stop_after |-> FALSE]

\* _parse_decision: the except branch
ParseFallback == [kind |-> "object", next_action |-> "STOP", stop_after |-> TRUE]

\* _parse_decision(response.content), as far as it returns a dict; for
\* "non_object" json.loads returns a non-dict.
ParseDecision(resp) ==
    CASE resp.kind = "malformed" -> ParseFallback
      [] resp.kind = "empty_object" -> EmptyDecision
      [] OTHER -> [kind |-> "object", next_action |-> resp.next_action,
                   stop_after |-> resp.stop_after]

\* _reason_next_action, once the summary is built: the value returned for
\* the model's answer.  Every exception inside the try block gives None;
\* decision.get(...) raises for a parsed value that is not a dict.
ReasonNextAction(resp) ==
    IF resp.kind \in {"llm_raise", "non_object"}
    THEN NoDecision
    ELSE ParseDecision(resp)

\* Python truthiness of decision: None and {} are falsy.
Truthy(d) == d.kind = "object"

\* Variant of StopsBeforeAction: only the STOP answer leaves the loop.
StopsBeforeAction_StopOnly(d) == d.next_action = "STOP"

\* "not decision or decision.get('next_action') == 'STOP'"
StopsBeforeAction(d) == ~Truthy(d) \/ d.next_action = "STOP"

\* Variant of LoopContinues: the test lets one more iteration in.
LoopContinues_OffByOne(it, max) == it <= max

\* the while condition of execute / execute_stream
LoopContinues(it, max) == it < max

\* Variant of StopsAfterAction: a raising tool also leaves the loop.
StopsAfterAction_OnFailure(d, out) == d.stop_after \/ out = "raise"

\* "if decision.get('stop_after'): break" after _execute_action
StopsAfterAction(d, out) == d.stop_after

----------------------------------------------------------------------------
(* ReActOrchestrator: _execute_action and _compile_final_report *)

PutFinding(f, k, v) == [x \in DOMAIN f \cup {k} |-> IF x = k THEN v ELSE f[x]]

\* findings after _execute_action ran tool a with outcome out
FindingsAfter(f, a, out) == PutFinding(f, a, StoredValue(out))

\* completed_actions after _execute_action: appended in the try block only
CompletedAfter(c, a, out) == IF out = "raise" THEN c ELSE Append(c, a)

\* total_cost_estimate after _execute_action: added in the try block only
CostAfter(c, a, out) ==
    IF out = "raise" THEN c ELSE c + cost_map(ToolCostClass(a))

\* The tools whose finding execute_stream yields as an event of its own.
StreamedTools ==
    {"scrape_url", "detect_seo_issues", "calculate_score",
     "run_technical_checks", "analyze_performance", "generate_fixes"}

StreamEventName(a) ==
    CASE a = "scrape_url" -> "scrape"
      [] a = "detect_seo_issues" -> "onpage_errors"
      [] a = "calculate_score" -> "seo_score"
      [] a = "run_technical_checks" -> "technical"
      [] a = "analyze_performance" -> "performance"
      [] OTHER -> "fixes"

\* _compile_final_report: the returned dict (the fields the run state gives)
CompileFinalReport ==
    [mode |-> "autonomous",
     iterations_used |-> iteration,
     max_iterations |-> max_iterations,
     tools_executed |-> completed_actions,
     cost_estimate |-> total_cost_estimate,
     findings |-> findings,
     reasoning_log |-> reasoning_log]

----------------------------------------------------------------------------
(* ReActOrchestrator.execute / execute_stream *)

\* The while test.  Entering the body increments the counter and, when
\* streaming, yields the "AI thinking" log line.
ReactLoop ==
    /\ orch = "react" /\ pc = "loop"
    /\ IF LoopContinues(iteration, max_iterations)
       THEN /\ iteration' = iteration + 1
            /\ events' = Emit(<<LogEv("reasoning", "running")>>)
            /\ pc' = "deciding"
       ELSE /\ pc' = "compile"
            /\ UNCHANGED <<iteration, events>>
    /\ UNCHANGED <<completed_actions, findings, total_cost_estimate,
                   reasoning_log, decision, llm_log, tool_log>>
    /\ UNCHANGED <<otherVars, cacheVars, inputVars, pipeVars, result, report>>

\* decision = self._reason_next_action() and the test that follows it.
ReactDecide ==
    /\ orch = "react" /\ pc = "deciding"
    /\ IF SummarizeRaises(findings)
       THEN \* the summary raises before the model is asked
            /\ decision' = NoDecision
            /\ UNCHANGED <<llm_log, reasoning_log>>
       ELSE \E resp \in LLMResponses :
            /\ llm_log' = Append(llm_log, resp)
            /\ decision' = ReasonNextAction(resp)
            /\ reasoning_log' =
                 IF ReasonNextAction(resp) = NoDecision
                 THEN reasoning_log
                 ELSE Append(reasoning_log,
                             [iteration |-> iteration,
                              action |-> ReasonNextAction(resp).next_action])
    /\ IF StopsBeforeAction(decision')
       THEN /\ events' = Emit(<<LogEv("reasoning", "done")>>)
            /\ pc' = "compile"
       ELSE /\ events' = Emit(<<Ev("reasoning", decision'.next_action, ""),
                                LogEv(decision'.next_action, "running")>>)
            /\ pc' = "executing"
    /\ UNCHANGED <<iteration, completed_actions, findings,
                   total_cost_estimate, tool_log>>
    /\ UNCHANGED <<otherVars, cacheVars, inputVars, pipeVars, result, report>>

\* What follows _execute_action in the loop body: the finding's event, the
\* "complete" log line and the stop_after test.
AfterAction(action, out, f) ==
    /\ events' = Emit(
          (IF action \in DOMAIN f /\ action \in StreamedTools
           THEN <<Ev(StreamEventName(action), action, "")>> ELSE <<>>)
          \o <<LogEv(action, "done")>>
          \o (IF StopsAfterAction(decision, out)
              THEN <<LogEv("reasoning", "done")>> ELSE <<>>))
    /\ pc' = IF StopsAfterAction(decision, out) THEN "compile" ELSE "loop"
    /\ UNCHANGED result

\* self._execute_action(decision) and the rest of the loop body.
ReactExecute ==
    /\ orch = "react" /\ pc = "executing"
    /\ LET action == decision.next_action IN
       IF action = Unhashable
       THEN \* "action in self.AVAILABLE_TOOLS" raises TypeError, uncaught
            /\ pc' = "raised" /\ result' = "raised"
            /\ UNCHANGED <<completed_actions, findings, total_cost_estimate,
                           tool_log, events>>
       ELSE IF action \in AVAILABLE_TOOLS
       THEN \E out \in RunToolOutcomes(action) :
            /\ tool_log' = Append(tool_log,
                                  [tool |-> action, outcome |-> out,
                                   scraped |-> ToolInput(action, findings)])
            /\ findings' = FindingsAfter(findings, action, out)
            /\ completed_actions' = CompletedAfter(completed_actions, action, out)
            /\ total_cost_estimate' = CostAfter(total_cost_estimate, action, out)
            /\ AfterAction(action, out, findings')
       ELSE \* unknown name: _execute_action does nothing
            /\ UNCHANGED <<completed_actions, findings, total_cost_estimate,
                           tool_log>>
            /\ AfterAction(action, "none", findings)
    /\ UNCHANGED <<iteration, reasoning_log, decision, llm_log>>
    /\ UNCHANGED <<otherVars, cacheVars, inputVars, pipeVars, report>>

\* The final compilation.  _compile_final_report calls _summarize_findings
\* outside any try block.
ReactCompile ==
    /\ orch = "react" /\ pc = "compile"
    /\ IF SummarizeRaises(findings)
       THEN /\ events' = Emit(<<LogEv("compile", "running")>>)
            /\ pc' = "raised" /\ result' = "raised"
            /\ UNCHANGED report
       ELSE /\ report' = <<CompileFinalReport>>
            /\ events' = Emit(<<LogEv("compile", "running"),
                                Ev("done", "compile", "")>>)
            /\ pc' = "done" /\ result' = "returned"
    /\ UNCHANGED <<otherVars, cacheVars, inputVars, reactVars, pipeVars>>

----------------------------------------------------------------------------
(* UnifiedScanOrchestrator: the mode pipeline *)

MODES ==
    [quick |-> <<"scrape", "detect_issues", "score">>,
     full |-> <<"scrape", "detect_issues", "technical", "performance",
                "score", "fixes", "report">>,
     advanced |-> <<"scrape", "detect_issues", "technical", "performance",
                    "competitors", "score", "fixes", "strategy", "roadmap",
                    "report">>]

PipelineModes == {"quick", "full", "advanced"}

\* nodes = self.MODES.get(mode, self.MODES["full"])
Nodes(m) == IF m \in DOMAIN MODES THEN MODES[m] ELSE MODES["full"]

\* The outcomes of _execute_node(node):
\*   "ok"           the node function returned
\*   "error_marker" it returned after storing an error dict: _node_scrape
\*                  stores what smart_scrape_url returned, _node_performance
\*                  catches its own exception
\*   "raise"        the node function raised
NodeOutcomes(node) ==
    CASE node = "scrape" -> {"ok", "error_marker", "raise"}
      [] node = "performance" -> {"ok", "error_marker"}
      [] OTHER -> {"ok", "raise"}

\* state["seo_data"] after a fetch (_node_scrape, or the fetch of run_audit_stream)
SeoDataAfter(old, node, out) ==
    IF node \in {"scrape", "fetch"} /\ out # "raise"
    THEN (IF out = "error_marker" THEN "error" ELSE "data")
    ELSE old

\* self.state after _execute_node(node): a node that raises has stored
\* nothing; _node_scrape stores whatever smart_scrape_url returned and
\* _node_performance stores {"error": ...} in its except branch.
NodeStateAfter(st, node, out) ==
    IF out = "raise" THEN st ELSE PutFinding(st, node, out)

\* The nodes whose result execute_stream yields as an event of its own.
StreamedNodes ==
    {"scrape", "detect_issues", "technical", "performance", "score", "fixes",
     "competitors", "report"}

NodeEventName(node) ==
    CASE node = "detect_issues" -> "onpage_errors"
      [] node = "score" -> "seo_score"
      [] OTHER -> node

\* self._log(step, message, status=...): the appended entry
LogEntry(step, status) == [step |-> step, status |-> status]

\* Variant of LogEvOf: the event is built from the entry's step alone.
LogEvOf_Stale(entry) == LogEv(entry.step, "running")

\* sse("log", self.state["logs"][-1])
LogEvOf(entry) == LogEv(entry.step, entry.status)

\* UnifiedScanOrchestrator.execute: does the loop "for node in nodes" go on
\* after _execute_node(node) had this outcome?  The loop has no try block.
BufferedContinues(out) == out # "raise"

\* One iteration of "for node in nodes" of execute (buffered) or
\* execute_stream (streaming).
UnifiedNode ==
    /\ orch = "unified" /\ pc = "nodes"
    /\ LET node == Nodes(mode)[node_idx]
           last == node_idx = Len(Nodes(mode))
       IN \E out \in NodeOutcomes(node) :
          /\ node_log' = Append(node_log, [node |-> node, outcome |-> out])
          /\ seo_data' = SeoDataAfter(seo_data, node, out)
          /\ node_state' = NodeStateAfter(node_state, node, out)
          /\ node_idx' = node_idx + 1
          /\ IF streaming
             THEN /\ logs' = logs \o
                       <<LogEntry(node, "running"),
                         LogEntry(node, IF out = "raise" THEN "error" ELSE "done")>>
                  /\ events' = events \o
                       <<LogEvOf(LogEntry(node, "running")),
                         LogEvOf(LogEntry(node, IF out = "raise" THEN "error"
                                                ELSE "done"))>>
                       \o (IF out # "raise" /\ node \in StreamedNodes
                           THEN <<Ev(NodeEventName(node), node, "")>>
                           ELSE <<>>)
                  /\ pc' = IF last THEN "finish" ELSE "nodes"
                  /\ UNCHANGED result
             ELSE /\ UNCHANGED <<logs, events>>
                  /\ IF BufferedContinues(out)
                     THEN /\ pc' = IF last THEN "finish" ELSE "nodes"
                          /\ UNCHANGED result
                     ELSE /\ pc' = "raised" /\ result' = "raised"
    /\ UNCHANGED <<otherVars, cacheVars, inputVars, reactVars, report>>

\* After the loop: "return self.state" (buffered), or the done event with
\* final_data (streaming).
UnifiedFinish ==
    /\ orch = "unified" /\ pc = "finish"
    /\ report' = <<[mode |-> mode, seo_data |-> seo_data,
                    nodes_run |-> [i \in 1..Len(node_log) |-> node_log[i].node]]>>
    /\ events' = Emit(<<Ev("done", "final", "")>>)
    /\ pc' = "done" /\ result' = "returned"
    /\ UNCHANGED <<otherVars, cacheVars, inputVars, reactVars, pipeVars>>

----------------------------------------------------------------------------
(* GraphAuditOrchestrator.run_audit_stream *)

GraphPhases ==
    <<"fetch", "extract", "sitemap", "analyze", "competitors", "fixes",
      "report", "storage">>

\* The outcomes of one phase of the try block:
\*   "ok"           the phase ran to its end
\*   "error_marker" fetch: smart_scrape_url returned {"error": ...}
\*   "skipped"      sitemap: no sitemap_url in seo_data
\*   "caught"       sitemap, storage: the phase's own except branch ran
\*   "raise"        an exception reached the outer except branch
PhaseOutcomes(ph) ==
    CASE ph = "fetch" -> {"ok", "error_marker", "raise"}
      [] ph = "extract" -> {"ok"}
      [] ph = "sitemap" -> {"ok", "skipped", "caught"}
      [] ph = "storage" -> {"ok", "caught"}
      [] OTHER -> {"ok", "raise"}

\* The log entries a phase appends, in order; each is yielded as a log event
\* right after its append.
PhaseLogs(ph, out) ==
    CASE ph = "fetch" ->
           <<LogEntry("fetch", "running")>> \o
           (CASE out = "ok" -> <<LogEntry("fetch", "done")>>
              [] out = "error_marker" -> <<LogEntry("fetch", "error")>>
              [] OTHER -> <<>>)
      [] ph = "extract" ->
           <<LogEntry("extract", "running"), LogEntry("extract", "done")>>
      [] ph = "sitemap" ->
           (CASE out = "ok" -> <<LogEntry("sitemap", "done")>>
              [] out = "caught" -> <<LogEntry("sitemap", "error")>>
              [] OTHER -> <<>>)
      [] ph = "storage" ->
           (IF out = "ok" THEN <<LogEntry("storage", "done")>> ELSE <<>>)
      [] OTHER ->
           <<LogEntry(ph, "running")>> \o
           (IF out = "ok" THEN <<LogEntry(ph, "done")>> ELSE <<>>)

\* The events a phase yields, in order.
PhaseEvents(ph, out) ==
    CASE ph = "sitemap" /\ out = "ok" ->
           <<Ev("sitemap_analysis", "sitemap", ""),
             LogEvOf(LogEntry("sitemap", "done"))>>
      [] ph = "analyze" /\ out = "ok" ->
           <<LogEvOf(LogEntry("analyze", "running")),
             LogEvOf(LogEntry("analyze", "done")),
             Ev("scrape", "analyze", ""), Ev("onpage_errors", "analyze", ""),
             Ev("seo_score", "analyze", "")>>
      [] ph \in {"competitors", "fixes", "report"} /\ out = "ok" ->
           <<LogEvOf(LogEntry(ph, "running")), LogEvOf(LogEntry(ph, "done")),
             Ev(ph, ph, "")>>
      [] OTHER ->
           [i \in 1..Len(PhaseLogs(ph, out)) |-> LogEvOf(PhaseLogs(ph, out)[i])]

\* The outer except branch: a log entry, its event, then an error event and
\* a done event.
StreamErrorEvents ==
    <<LogEvOf(LogEntry("stream", "error")), Ev("error", "stream", ""),
      Ev("done", "stream", "error")>>

\* One phase of the try block of run_audit_stream.
GraphPhase ==
    /\ orch = "graph" /\ pc = "phases"
    /\ LET ph == GraphPhases[node_idx]
           last == node_idx = Len(GraphPhases)
       IN \E out \in PhaseOutcomes(ph) :
          /\ node_log' = Append(node_log, [node |-> ph, outcome |-> out])
          /\ seo_data' = SeoDataAfter(seo_data, ph, out)
          /\ node_idx' = node_idx + 1
          /\ UNCHANGED node_state
          /\ IF out = "raise"
             THEN /\ logs' = logs \o PhaseLogs(ph, out)
                               \o <<LogEntry("stream", "error")>>
                  /\ events' = events \o PhaseEvents(ph, out)
                                 \o StreamErrorEvents
                  /\ report' = <<[error |-> ph]>>
                  /\ pc' = "done" /\ result' = "returned"
             ELSE /\ logs' = logs \o PhaseLogs(ph, out)
                  /\ events' = events \o PhaseEvents(ph, out)
                  /\ pc' = IF last THEN "finish" ELSE "phases"
                  /\ UNCHANGED <<result, report>>
    /\ UNCHANGED <<otherVars, cacheVars, inputVars, reactVars>>

\* yield sse("done", done_payload)
GraphFinish ==
    /\ orch = "graph" /\ pc = "finish"
    /\ report' = <<[mode |-> mode, seo_data |-> seo_data,
                    nodes_run |-> [i \in 1..Len(node_log) |-> node_log[i].node]]>>
    /\ events' = events \o <<Ev("done", "final", "")>>
    /\ pc' = "done" /\ result' = "returned"
    /\ UNCHANGED <<otherVars, cacheVars, inputVars, reactVars, pipeVars>>

----------------------------------------------------------------------------
(* scraper.py: the TTL cache of scraped pages and smart_scrape_url *)

\* _CACHE_TTL_SECONDS
CACHE_TTL_SECONDS == 300

\* _CACHE_MAX_SIZE
CACHE_MAX_SIZE == 50

\* Most smart_scrape_url calls of one behaviour.
MaxCalls == 2

\* Most clock advances of one behaviour.
MaxTicks == 1

\* How many entries of a cache filled by earlier scans are TTL old or older.
ExpiredPrefix == 2

\* The absent value (None): no dict at all.
NoData == [id |-> 0, fields |-> {}]

\* _scrape_cache.get(url) when url is not a key.
NoEntry == [url |-> 0, data |-> NoData, ts |-> 0]

\* { "data": data, "ts": ts } stored under the key url.
Entry(url, data, ts) == [url |-> url, data |-> data, ts |-> ts]

\* url in _scrape_cache
HasKey(c, url) == \E i \in 1..Len(c) : c[i].url = url

\* _scrape_cache.get(url)
DictGet(c, url) ==
    IF HasKey(c, url) THEN c[CHOOSE i \in 1..Len(c) : c[i].url = url]
    ELSE NoEntry

\* del _scrape_cache[url]: the other entries keep their order.
DictDel(c, url) == LET keep(e) == e.url # url IN SelectSeq(c, keep)

\* _scrape_cache[url] = entry: an existing key keeps its position, a new
\* key goes last.
DictPut(c, url, entry) ==
    IF HasKey(c, url)
    THEN [c EXCEPT ![CHOOSE i \in 1..Len(c) : c[i].url = url] = entry]
    ELSE Append(c, entry)

\* Variant of IsFresh: an entry exactly TTL old still counts as fresh.
IsFresh_Inclusive(entry, t) == (t - entry.ts) <= CACHE_TTL_SECONDS

\* (time.time() - entry["ts"]) < _CACHE_TTL_SECONDS
IsFresh(entry, t) == (t - entry.ts) < CACHE_TTL_SECONDS

\* _cache_get(url) at time t: the value returned and the cache afterwards.
cache_get(c, url, t) ==
    LET entry == DictGet(c, url)
    IN  IF HasKey(c, url) /\ IsFresh(entry, t)
        THEN [ret |-> entry.data, cache |-> c]
        ELSE [ret |-> NoData,
              cache |-> IF HasKey(c, url) THEN DictDel(c, url) ELSE c]

\* Variant of AtCapacity: eviction starts only above the limit.
AtCapacity_Over(c) == Len(c) > CACHE_MAX_SIZE

\* len(_scrape_cache) >= _CACHE_MAX_SIZE
AtCapacity(c) == Len(c) >= CACHE_MAX_SIZE

\* min(_scrape_cache, key=lambda u: _scrape_cache[u]["ts"]): the first key,
\* in insertion order, among those with the smallest ts.
OldestUrl(c) ==
    c[CHOOSE i \in 1..Len(c) :
         \A j \in 1..Len(c) :
             c[i].ts < c[j].ts \/ (c[i].ts = c[j].ts /\ i <= j)].url

\* _cache_set(url, data) at time t: the cache afterwards.
cache_set(c, url, data, t) ==
    LET c1 == IF AtCapacity(c) THEN DictDel(c, OldestUrl(c)) ELSE c
    IN  DictPut(c1, url, Entry(url, data, t))

\* Variant of ServedFromCache: the cached value is never used.
ServedFromCache_Never(cached) == FALSE

\* if cached is not None: return cached
ServedFromCache(cached) == cached # NoData

\* Variant of Cacheable: every result is stored.
Cacheable_Always(data) == TRUE

\* if not data.get("error"): _cache_set(url, data)
Cacheable(data) == "error" \notin data.fields

\* What the fetch part of smart_scrape_url can do:
\*   "requests_ok"  scrape_url returned a page with structured data
\*   "fallback_ok"  scrape_url failed or found no structured data, and the
\*                  Playwright fetch ran (its page, or the scrape_url page
\*                  when Playwright answered "ERROR...", is the result)
\*   "error"        scrape_url returned {"error": ...} and Playwright
\*                  answered "ERROR..."
\*   "raise"        the import inside fetch_page_playwright raised
FetchOutcomes == {"requests_ok", "fallback_ok", "error", "raise"}

\* Network fetches performed: scrape_url, plus fetch_page_playwright when
\* it ran.
FetchCount(out) == IF out \in {"fallback_ok", "error"} THEN 2 ELSE 1

\* The dict the fetch part produced; id is the identity of the object.
FetchedData(out, id) ==
    IF out = "error" THEN [id |-> id, fields |-> {"error", "scraper_used"}]
    ELSE [id |-> id, fields |-> {"seo", "html_content", "scraper_used"}]

\* A cache filled by n earlier scans, one second apart.
Prefill(n) ==
    [i \in 1..n |->
        Entry(i, [id |-> i, fields |-> {"seo", "html_content", "scraper_used"}],
              i)]

\* The urls scanned: one whose old entry is exactly TTL old, one whose entry
\* is one second younger, one never scanned before.
Targets == {ExpiredPrefix, ExpiredPrefix + 1, CACHE_MAX_SIZE + 1}

\* By how much the clock advances between two steps.
Deltas == {1, CACHE_TTL_SECONDS - 1}

CurNone == [url |-> 0, start |-> 0, data |-> NoData, fetches |-> 0]

OpNone == [n |-> 0, name |-> "none", url |-> 0, ret |-> NoData, at |-> 0]

\* The record of a finished call.
CallRecord(url, start, fetches, ret, outcome, stored_at, evicted) ==
    [url |-> url, start |-> start, fetches |-> fetches, ret |-> ret,
     outcome |-> outcome, stored_at |-> stored_at, evicted |-> evicted]

\* The identity of the next fetched dict.
NewId == CACHE_MAX_SIZE + Len(calls) + 1

\* smart_scrape_url(url), first part: cached = _cache_get(url); a hit returns.
ScrapeCall ==
    /\ spc = "idle" /\ Len(calls) < MaxCalls
    /\ \E url \in Targets :
         LET g == cache_get(scrape_cache, url, now)
         IN  /\ scrape_cache' = g.cache
             /\ op' = [n |-> op.n + 1, name |-> "get", url |-> url,
                       ret |-> g.ret, at |-> now]
             /\ IF ServedFromCache(g.ret)
                THEN /\ calls' = Append(calls,
                            CallRecord(url, now, 0, g.ret, "hit", -1, 0))
                     /\ returned' = g.ret
                     /\ UNCHANGED <<spc, cur>>
                ELSE /\ spc' = "fetch"
                     /\ cur' = [CurNone EXCEPT !.url = url, !.start = now]
                     /\ UNCHANGED <<calls, returned>>
    /\ UNCHANGED <<otherVars, runVars, now, ticks, th>>

\* smart_scrape_url, middle part: scrape_url, the Playwright fallback, and
\* the test that keeps errors out of the cache.
ScrapeFetch ==
    /\ spc = "fetch"
    /\ \E out \in FetchOutcomes :
         LET data == FetchedData(out, NewId)
         IN  CASE out = "raise" ->
                    /\ calls' = Append(calls,
                           CallRecord(cur.url, cur.start, FetchCount(out),
                                      NoData, "raise", -1, 0))
                    /\ spc' = "idle" /\ cur' = CurNone
                    /\ returned' = NoData
               [] out # "raise" /\ Cacheable(data) ->
                    /\ spc' = "store"
                    /\ cur' = [cur EXCEPT !.data = data,
                                          !.fetches = FetchCount(out)]
                    /\ UNCHANGED <<calls, returned>>
               [] OTHER ->
                    /\ calls' = Append(calls,
                           CallRecord(cur.url, cur.start, FetchCount(out),
                                      data, "error", -1, 0))
                    /\ spc' = "idle" /\ cur' = CurNone
                    /\ returned' = data
    /\ UNCHANGED <<otherVars, runVars, scrape_cache, now, ticks, op, th>>

\* smart_scrape_url, last part: _cache_set(url, data); return data.
ScrapeStore ==
    /\ spc = "store"
    /\ scrape_cache' = cache_set(scrape_cache, cur.url, cur.data, now)
    /\ op' = [n |-> op.n + 1, name |-> "set", url |-> cur.url,
              ret |-> cur.data, at |-> now]
    /\ calls' = Append(calls,
           CallRecord(cur.url, cur.start, cur.fetches, cur.data, "fetched",
                      now,
                      IF AtCapacity(scrape_cache)
                      THEN OldestUrl(scrape_cache) ELSE 0))
    /\ returned' = cur.data
    /\ spc' = "idle" /\ cur' = CurNone
    /\ UNCHANGED <<otherVars, runVars, now, ticks, th>>

\* What the callers do to the dict they got: scraped.pop("html_content", "")
\* and scraped.update(technical["technical_flags"]).
MutatedFields(fields, kind) ==
    IF kind = "pop_html" THEN fields \ {"html_content"}
    ELSE fields \cup {"technical_flags"}

\* The caller changes the returned dict in place; a cache entry holding the
\* same object changes with it.
CallerMutates ==
    /\ spc = "idle" /\ returned # NoData /\ "error" \notin returned.fields
    /\ \E kind \in {"pop_html", "update_flags"} :
         LET new == MutatedFields(returned.fields, kind)
         IN  /\ new # returned.fields
             /\ returned' = [returned EXCEPT !.fields = new]
             /\ scrape_cache' =
                    [i \in 1..Len(scrape_cache) |->
                        IF scrape_cache[i].data.id = returned.id
                        THEN [scrape_cache[i] EXCEPT !.data.fields = new]
                        ELSE scrape_cache[i]]
    /\ UNCHANGED <<otherVars, runVars, now, ticks, spc, cur, calls, op, th>>

\* Time passes.
CacheTick ==
    /\ ticks < MaxTicks
    /\ \E d \in Deltas : now' = now + d
    /\ ticks' = ticks + 1
    /\ UNCHANGED <<otherVars, runVars, scrape_cache, spc, cur, calls, op, returned, th>>

\* What a fetcher returns: kind is "pending", "ok", "error" or "raised",
\* src the transfer the returned value comes from.
FetchResult(kind, src) == [kind |-> kind, src |-> src]

\* No fetch is in progress.
FetchOff ==
    /\ fetch_fn = "none" /\ playwright_available = FALSE /\ retries = 0
    /\ fetch_pc = "off" /\ fetch_attempt = 0 /\ tiers = <<>>
    /\ fetch_result = FetchResult("pending", "none")

\* No streaming generator exists.
GenOff ==
    /\ g_fn = "none" /\ g_mode = "none" /\ g_max = 0 /\ g_pos = "off"
    /\ g_i = 0 /\ g_dec = [action |-> "none", stop_after |-> FALSE]
    /\ started = <<>> /\ finished = <<>> /\ delivered = <<>>
    /\ connected = FALSE

\* parallel_keyword_analysis is not running.
KwOff ==
    /\ kw_text = <<>> /\ kw_task = <<>> /\ kw_order = <<>> /\ kw_pair = <<>>
    /\ kw_pc = "off"

\* Nothing but an orchestrator run or the scrape cache is in use.
\* No stream is in flight.
NoChat == [active |-> FALSE, cid |-> "", full_response |-> ""]

\* The chat operation that ran last (history).
After(c, name) == [active |-> c.active, cid |-> c.cid,
                   full_response |-> c.full_response, last |-> name]

\* No chat has taken place: the defaultdict is empty.
ChatOff == conversations = <<>> /\ chat = After(NoChat, "none")

OtherOff == FetchOff /\ GenOff /\ KwOff /\ second_run = FALSE /\ ChatOff

\* No scan uses the cache.
CacheOff ==
    /\ scrape_cache = <<>> /\ now = 0 /\ ticks = 0
    /\ spc = "idle" /\ cur = CurNone /\ calls = <<>> /\ op = OpNone
    /\ returned = NoData /\ th = <<>>

\* No orchestrator run is in progress.
RunOff ==
    /\ orch = "none" /\ streaming = FALSE /\ mode = "none"
    /\ max_iterations = 0 /\ pc = "off" /\ result = "pending"
    /\ iteration = 0 /\ completed_actions = <<>> /\ findings = <<>>
    /\ total_cost_estimate = 0 /\ reasoning_log = <<>>
    /\ decision = NoDecision /\ llm_log = <<>> /\ tool_log = <<>>
    /\ node_idx = 1 /\ logs = <<>> /\ seo_data = "empty" /\ node_log = <<>>
    /\ node_state = <<>> /\ events = <<>> /\ report = <<>>

\* One scan at a time, on a cache that is empty, one below the limit, or at
\* the limit; the clock stands where every old entry is still fresh, or
\* where the first ExpiredPrefix of them are TTL old or older.
CacheInit ==
    /\ RunOff /\ OtherOff
    /\ scrape_cache \in {<<>>, Prefill(CACHE_MAX_SIZE - 1),
                         Prefill(CACHE_MAX_SIZE)}
    /\ now \in {CACHE_MAX_SIZE, CACHE_TTL_SECONDS + ExpiredPrefix}
    /\ ticks = 0 /\ spc = "idle" /\ cur = CurNone /\ calls = <<>>
    /\ op = OpNone /\ returned = NoData /\ th = <<>>

CacheNext ==
    \/ ScrapeCall
    \/ ScrapeFetch
    \/ ScrapeStore
    \/ CallerMutates
    \/ CacheTick

CacheSpec == CacheInit /\ [][CacheNext]_vars

----------------------------------------------------------------------------
(* scraper.py: two scans using the cache at the same time.  The sync      *)
(* generator behind /agent-scan/stream is iterated in a worker thread, so  *)
(* two requests run smart_scrape_url in two threads; the cache has no      *)
(* lock.  A step is one operation on the shared dict.                      *)

Threads == {1, 2}

\* Most smart_scrape_url calls of one thread.
MaxThreadCalls == 1

ThIdle == [pc |-> "idle", url |-> 0, entry |-> NoEntry, data |-> NoData,
           seen |-> <<>>, oldest |-> 0, err |-> "none", done |-> 0]

\* The urls the two scans ask for: one with an expired entry, two new ones.
ConcTargets == {ExpiredPrefix, CACHE_MAX_SIZE + 1, CACHE_MAX_SIZE + 2}

\* The thread leaves smart_scrape_url normally.
ThReturn(t) == [th[t] EXCEPT !.pc = "idle", !.done = @ + 1]

\* The thread leaves smart_scrape_url with an exception.
ThRaise(t, e) == [th[t] EXCEPT !.pc = "failed", !.err = e]

\* _cache_get: entry = _scrape_cache.get(url)
ThCacheGetRead ==
    \E t \in Threads :
        /\ th[t].pc = "idle" /\ th[t].done < MaxThreadCalls
        /\ \E url \in ConcTargets :
              th' = [th EXCEPT ![t] = [@ EXCEPT !.pc = "get",
                                                !.url = url,
                                                !.entry = DictGet(scrape_cache, url)]]
        /\ UNCHANGED <<otherVars, runVars, scrape_cache, now, ticks, spc, cur, calls, op,
                       returned>>

\* _cache_get: the freshness test on the entry read, then
\* "del _scrape_cache[url]", which raises KeyError when the key is gone.
ThCacheGetCheck ==
    \E t \in Threads :
        /\ th[t].pc = "get"
        /\ IF th[t].entry # NoEntry /\ IsFresh(th[t].entry, now)
           THEN /\ th' = [th EXCEPT ![t] = ThReturn(t)]
                /\ UNCHANGED scrape_cache
           ELSE IF th[t].entry # NoEntry
           THEN IF HasKey(scrape_cache, th[t].url)
                THEN /\ scrape_cache' = DictDel(scrape_cache, th[t].url)
                     /\ th' = [th EXCEPT ![t].pc = "fetch"]
                ELSE /\ th' = [th EXCEPT ![t] = ThRaise(t, "KeyError")]
                     /\ UNCHANGED scrape_cache
           ELSE /\ th' = [th EXCEPT ![t].pc = "fetch"]
                /\ UNCHANGED scrape_cache
        /\ UNCHANGED <<otherVars, runVars, now, ticks, spc, cur, calls, op, returned>>

\* smart_scrape_url: the fetch; an error result is returned without a set.
ThFetch ==
    \E t \in Threads :
        /\ th[t].pc = "fetch"
        /\ \E out \in {"requests_ok", "error"} :
              LET data == FetchedData(out, CACHE_MAX_SIZE + t)
              IN  th' = [th EXCEPT ![t] =
                            IF Cacheable(data)
                            THEN [@ EXCEPT !.pc = "set_len", !.data = data]
                            ELSE ThReturn(t)]
        /\ UNCHANGED <<otherVars, runVars, scrape_cache, now, ticks, spc, cur, calls, op,
                       returned>>

\* _cache_set: if len(_scrape_cache) >= _CACHE_MAX_SIZE, and the start of
\* the iteration of min over the dict.
ThCacheSetLen ==
    \E t \in Threads :
        /\ th[t].pc = "set_len"
        /\ th' = [th EXCEPT ![t] =
                     IF AtCapacity(scrape_cache)
                     THEN [@ EXCEPT !.pc = "set_min", !.seen = scrape_cache]
                     ELSE [@ EXCEPT !.pc = "set_put"]]
        /\ UNCHANGED <<otherVars, runVars, scrape_cache, now, ticks, spc, cur, calls, op,
                       returned>>

\* _cache_set: the end of min(_scrape_cache, key=...).  The iteration
\* raises RuntimeError when the dict changed size under it; when the dict
\* changed and kept its size it raises or yields the oldest key of either
\* the dict it started on or the dict as it is now.
ThCacheSetMin ==
    \E t \in Threads :
        /\ th[t].pc = "set_min"
        /\ \/ /\ Len(scrape_cache) = Len(th[t].seen)
              /\ \E c \in {th[t].seen, scrape_cache} :
                    th' = [th EXCEPT ![t] = [@ EXCEPT !.pc = "set_del",
                                                      !.oldest = OldestUrl(c),
                                                      !.seen = <<>>]]
           \/ /\ scrape_cache # th[t].seen
              /\ th' = [th EXCEPT ![t] = ThRaise(t, "RuntimeError")]
        /\ UNCHANGED <<otherVars, runVars, scrape_cache, now, ticks, spc, cur, calls, op,
                       returned>>

\* _cache_set: del _scrape_cache[oldest_url], KeyError when the key is gone.
ThCacheSetDel ==
    \E t \in Threads :
        /\ th[t].pc = "set_del"
        /\ IF HasKey(scrape_cache, th[t].oldest)
           THEN /\ scrape_cache' = DictDel(scrape_cache, th[t].oldest)
                /\ th' = [th EXCEPT ![t].pc = "set_put"]
           ELSE /\ th' = [th EXCEPT ![t] = ThRaise(t, "KeyError")]
                /\ UNCHANGED scrape_cache
        /\ UNCHANGED <<otherVars, runVars, now, ticks, spc, cur, calls, op, returned>>

\* _cache_set: _scrape_cache[url] = {"data": data, "ts": time.time()}
ThCacheSetPut ==
    \E t \in Threads :
        /\ th[t].pc = "set_put"
        /\ scrape_cache' = DictPut(scrape_cache, th[t].url,
                                   Entry(th[t].url, th[t].data, now))
        /\ th' = [th EXCEPT ![t] = ThReturn(t)]
        /\ UNCHANGED <<otherVars, runVars, now, ticks, spc, cur, calls, op, returned>>

\* Two scans start on a cache one below the limit or at the limit, the
\* first ExpiredPrefix entries TTL old or older.
ConcInit ==
    /\ RunOff /\ OtherOff
    /\ scrape_cache \in {Prefill(CACHE_MAX_SIZE - 1), Prefill(CACHE_MAX_SIZE)}
    /\ now = CACHE_TTL_SECONDS + ExpiredPrefix
    /\ ticks = 0 /\ spc = "idle" /\ cur = CurNone /\ calls = <<>>
    /\ op = OpNone /\ returned = NoData
    /\ th = [t \in Threads |-> ThIdle]

ConcNext ==
    \/ ThCacheGetRead
    \/ ThCacheGetCheck
    \/ ThFetch
    \/ ThCacheSetLen
    \/ ThCacheSetMin
    \/ ThCacheSetDel
    \/ ThCacheSetPut

ConcSpec == ConcInit /\ [][ConcNext]_vars

----------------------------------------------------------------------------
(* The fetchers and their tiers: graph_tools.fetch_page_pure (httpx, then  *)
(* requests, then Playwright) and scraper.smart_scrape_url (scrape_url     *)
(* with retries, then Playwright).  One behaviour is one fetch.            *)

\* Largest max_retries explored; scrape_url's default is 2.
MaxRetries == 2

\* What one HTTP transfer can do:
\*   "ok_marker"    a page with structured data
\*   "ok_nomarker"  a page without structured data
\*   "timeout"      requests.exceptions.Timeout
\*   "connection"   requests.exceptions.ConnectionError
\*   "http"         requests.exceptions.HTTPError
\*   "other"        any other exception
TransferOutcomes ==
    {"ok_marker", "ok_nomarker", "timeout", "connection", "http", "other"}

TransferOk == {"ok_marker", "ok_nomarker"}

\* What fetch_page_pure's httpx transfer can do: a page, an empty body, or
\* an exception.
HttpxOutcomes == {"html", "empty", "raise"}

\* What fetch_page_playwright can do: the rendered page, the string
\* "ERROR: Playwright failed: ..." of its except branch, or, when the
\* package is missing, the ImportError of its import statement, which
\* stands outside the try.
PlaywrightOutcomes(available) ==
    IF available THEN {"html", "error_string"} ELSE {"import_error"}

\* Variant of RetriesOn: every failed transfer is retried.
RetriesOn_AnyFailure(out) == out \notin TransferOk

\* scrape_url: only the Timeout branch falls through to the next attempt,
\* the other except branches break.
RetriesOn(out) == out = "timeout"

\* smart_scrape_url: if data.get("error") or not
\* data.get("structured_data_present")
Escalates(out) == out # "ok_marker"

Attempt(tier, out) == [tier |-> tier, outcome |-> out]

\* scrape_url: one pass of "for attempt in range(max_retries + 1)", and at
\* the end of scrape_url the escalation test of smart_scrape_url.
ScrapeUrlAttempt ==
    /\ fetch_fn = "smart_scrape_url" /\ fetch_pc = "requests"
    /\ \E out \in TransferOutcomes :
         /\ tiers' = Append(tiers, Attempt("requests", out))
         /\ IF RetriesOn(out) /\ fetch_attempt < retries
            THEN /\ fetch_attempt' = fetch_attempt + 1
                 /\ UNCHANGED <<fetch_pc, fetch_result>>
            ELSE /\ UNCHANGED fetch_attempt
                 /\ IF Escalates(out)
                    THEN /\ fetch_pc' = "playwright"
                         /\ fetch_result' =
                               FetchResult(IF out \in TransferOk THEN "ok"
                                           ELSE "error", "requests")
                    ELSE /\ fetch_pc' = "done"
                         /\ fetch_result' = FetchResult("ok", "requests")
    /\ UNCHANGED <<fetch_fn, playwright_available, retries>>
    /\ UNCHANGED notFetchVars

\* smart_scrape_url: html = fetch_page_playwright(url); a rendered page
\* replaces data, an "ERROR..." string leaves data as scrape_url made it.
SmartPlaywright ==
    /\ fetch_fn = "smart_scrape_url" /\ fetch_pc = "playwright"
    /\ \E out \in PlaywrightOutcomes(playwright_available) :
         /\ tiers' = Append(tiers, Attempt("playwright", out))
         /\ CASE out = "html" ->
                   /\ fetch_result' = FetchResult("ok", "playwright")
                   /\ fetch_pc' = "done"
              [] out = "error_string" ->
                   /\ fetch_pc' = "done"
                   /\ UNCHANGED fetch_result
              [] OTHER ->
                   /\ fetch_result' = FetchResult("raised", "playwright")
                   /\ fetch_pc' = "raised"
    /\ UNCHANGED <<fetch_fn, playwright_available, retries, fetch_attempt>>
    /\ UNCHANGED notFetchVars

\* fetch_page_pure: the httpx transfer; an empty body returns
\* "ERROR: Pagina vuota" at once, only an exception goes on.
PureHttpx ==
    /\ fetch_fn = "fetch_page_pure" /\ fetch_pc = "httpx"
    /\ \E out \in HttpxOutcomes :
         /\ tiers' = Append(tiers, Attempt("httpx", out))
         /\ CASE out = "html" ->
                   /\ fetch_result' = FetchResult("ok", "httpx")
                   /\ fetch_pc' = "done"
              [] out = "empty" ->
                   /\ fetch_result' = FetchResult("error", "httpx")
                   /\ fetch_pc' = "done"
              [] OTHER ->
                   /\ fetch_pc' = "requests"
                   /\ UNCHANGED fetch_result
    /\ UNCHANGED <<fetch_fn, playwright_available, retries, fetch_attempt>>
    /\ UNCHANGED notFetchVars

\* fetch_page_pure: the requests transfer of the except branch; a page is
\* returned, an empty body or an exception goes on to the Playwright test,
\* and without Playwright the function returns "ERROR: ...".
PureRequests ==
    /\ fetch_fn = "fetch_page_pure" /\ fetch_pc = "requests"
    /\ \E out \in HttpxOutcomes :
         /\ tiers' = Append(tiers, Attempt("requests", out))
         /\ IF out = "html"
            THEN /\ fetch_result' = FetchResult("ok", "requests")
                 /\ fetch_pc' = "done"
            ELSE IF playwright_available
            THEN /\ fetch_pc' = "playwright"
                 /\ UNCHANGED fetch_result
            ELSE /\ fetch_result' = FetchResult("error", "requests")
                 /\ fetch_pc' = "done"
    /\ UNCHANGED <<fetch_fn, playwright_available, retries, fetch_attempt>>
    /\ UNCHANGED notFetchVars

\* fetch_page_pure: pw_html = fetch_page_playwright(url) under
\* "if PLAYWRIGHT_AVAILABLE".
PurePlaywright ==
    /\ fetch_fn = "fetch_page_pure" /\ fetch_pc = "playwright"
    /\ \E out \in PlaywrightOutcomes(playwright_available) :
         /\ tiers' = Append(tiers, Attempt("playwright", out))
         /\ fetch_result' = FetchResult(IF out = "html" THEN "ok" ELSE "error",
                                        "playwright")
         /\ fetch_pc' = "done"
    /\ UNCHANGED <<fetch_fn, playwright_available, retries, fetch_attempt>>
    /\ UNCHANGED notFetchVars

\* A fetch starts: either fetcher, Playwright installed or not.
FetchInit ==
    /\ RunOff /\ CacheOff /\ GenOff /\ KwOff /\ second_run = FALSE
    /\ ChatOff
    /\ fetch_fn \in {"smart_scrape_url", "fetch_page_pure"}
    /\ playwright_available \in BOOLEAN
    /\ retries \in (IF fetch_fn = "smart_scrape_url" THEN 0..MaxRetries
                    ELSE {0})
    /\ fetch_pc = (IF fetch_fn = "smart_scrape_url" THEN "requests"
                   ELSE "httpx")
    /\ fetch_attempt = 0 /\ tiers = <<>>
    /\ fetch_result = FetchResult("pending", "none")

FetchNext ==
    \/ ScrapeUrlAttempt
    \/ SmartPlaywright
    \/ PureHttpx
    \/ PureRequests
    \/ PurePlaywright

FetchSpec == FetchInit /\ [][FetchNext]_vars

----------------------------------------------------------------------------
(* The streaming generators, one yield at a time.  execute_stream is a     *)
(* generator: its body runs only while the caller asks for the next event, *)
(* from the yield it is suspended at to the next yield.  A step is the     *)
(* call of _execute_node or of _execute_action for a known tool.           *)

\* Largest max_iterations of the generator explored.
MaxGenIterations == 2

\* The decisions _reason_next_action can give the streaming loop: none, STOP,
\* a streamed tool, a tool without a data event, an unknown action.
GenActions == {"none", "STOP", "scrape_url", "analyze_authority",
               "unknown_tool"}

GenDecision(a, s) == [action |-> a, stop_after |-> s]

\* Variant of StepCompleted: the step is still running when the generator
\* reaches its next yield.
StepCompleted_Deferred(fin, step) == fin

\* _execute_node / _execute_action return (or their exception is caught)
\* before the generator goes on: the step is complete.
StepCompleted(fin, step) == Append(fin, step)

\* The generator yields event e and is suspended at position p.
GenYield(e, p) ==
    /\ delivered' = Append(delivered, e)
    /\ g_pos' = p

\* UnifiedScanOrchestrator.execute_stream: the top of "for node in nodes",
\* or the code after the loop.
GenUnifiedAdvance(i) ==
    IF i <= Len(Nodes(g_mode))
    THEN /\ g_i' = i
         /\ GenYield("log:running", "running")
    ELSE /\ g_i' = i
         /\ GenYield("done", "done")

\* UnifiedScanOrchestrator.execute_stream resumed by next().
GenUnifiedResume ==
    /\ g_fn = "unified" /\ connected
    /\ g_pos \in {"start", "running", "nodedone", "nodeerror", "data", "done"}
    /\ LET node == Nodes(g_mode)[g_i]
       IN  CASE g_pos = "start" ->
                  /\ GenUnifiedAdvance(1)
                  /\ UNCHANGED <<started, finished>>
             [] g_pos = "running" ->
                  /\ started' = Append(started, node)
                  /\ finished' = StepCompleted(finished, node)
                  /\ \E raised \in BOOLEAN :
                        IF raised THEN GenYield("log:error", "nodeerror")
                        ELSE GenYield("log:done", "nodedone")
                  /\ UNCHANGED g_i
             [] g_pos = "nodedone" /\ node \in StreamedNodes ->
                  /\ GenYield(NodeEventName(node), "data")
                  /\ UNCHANGED <<g_i, started, finished>>
             [] g_pos = "done" ->
                  /\ g_pos' = "finished"
                  /\ UNCHANGED <<g_i, started, finished, delivered>>
             [] OTHER ->
                  /\ GenUnifiedAdvance(g_i + 1)
                  /\ UNCHANGED <<started, finished>>
    /\ UNCHANGED <<g_fn, g_mode, g_max, g_dec, connected>>
    /\ UNCHANGED notGenVars

\* ReActOrchestrator.execute_stream: the test of the while loop, or the
\* code after the loop.
GenReactAdvance ==
    IF g_i < g_max
    THEN /\ g_i' = g_i + 1
         /\ GenYield("log:reasoning", "thinking")
    ELSE /\ g_i' = g_i
         /\ GenYield("log:compile", "compile")

\* ReActOrchestrator.execute_stream resumed by next().
GenReactResume ==
    /\ g_fn = "react" /\ connected
    /\ g_pos \in {"start", "init", "thinking", "stopped", "reasoning",
                  "executing", "data", "complete", "compile", "done"}
    /\ CASE g_pos = "start" ->
              /\ GenYield("log:init", "init")
              /\ UNCHANGED <<g_i, g_dec, started, finished>>
         [] g_pos = "init" ->
              /\ GenReactAdvance
              /\ UNCHANGED <<g_dec, started, finished>>
         [] g_pos = "thinking" ->
              /\ \E a \in GenActions, s \in BOOLEAN :
                    /\ (a \in {"none", "STOP"} => ~s)
                    /\ g_dec' = GenDecision(a, s)
                    /\ IF a \in {"none", "STOP"}
                       THEN GenYield("log:reasoning_done", "stopped")
                       ELSE GenYield("reasoning", "reasoning")
              /\ UNCHANGED <<g_i, started, finished>>
         [] g_pos = "reasoning" ->
              /\ GenYield("log:executing", "executing")
              /\ UNCHANGED <<g_i, g_dec, started, finished>>
         [] g_pos = "executing" ->
              /\ IF g_dec.action \in AVAILABLE_TOOLS
                 THEN /\ started' = Append(started, g_dec.action)
                      /\ finished' = StepCompleted(finished, g_dec.action)
                 ELSE UNCHANGED <<started, finished>>
              /\ IF g_dec.action \in StreamedTools
                 THEN GenYield(StreamEventName(g_dec.action), "data")
                 ELSE GenYield("log:complete", "complete")
              /\ UNCHANGED <<g_i, g_dec>>
         [] g_pos = "data" ->
              /\ GenYield("log:complete", "complete")
              /\ UNCHANGED <<g_i, g_dec, started, finished>>
         [] g_pos = "complete" ->
              /\ IF g_dec.stop_after
                 THEN /\ GenYield("log:reasoning_done", "stopped")
                      /\ UNCHANGED g_i
                 ELSE GenReactAdvance
              /\ UNCHANGED <<g_dec, started, finished>>
         [] g_pos = "stopped" ->
              /\ GenYield("log:compile", "compile")
              /\ UNCHANGED <<g_i, g_dec, started, finished>>
         [] g_pos = "compile" ->
              /\ \E raised \in BOOLEAN :
                    IF raised
                    THEN /\ g_pos' = "raised" /\ UNCHANGED delivered
                    ELSE GenYield("done", "done")
              /\ UNCHANGED <<g_i, g_dec, started, finished>>
         [] OTHER ->
              /\ g_pos' = "finished"
              /\ UNCHANGED <<g_i, g_dec, started, finished, delivered>>
    /\ UNCHANGED <<g_fn, g_mode, g_max, connected>>
    /\ UNCHANGED notGenVars

\* The caller stops consuming at an event it has received: the generator
\* stays suspended at that yield and is closed there.
GenDisconnect ==
    /\ connected /\ delivered # <<>>
    /\ g_pos \notin {"finished", "raised"}
    /\ connected' = FALSE
    /\ UNCHANGED <<g_fn, g_mode, g_max, g_pos, g_i, g_dec, started, finished,
                   delivered>>
    /\ UNCHANGED notGenVars

\* A generator has been created and not yet asked for an event.
GenInit ==
    /\ RunOff /\ CacheOff /\ FetchOff /\ KwOff /\ second_run = FALSE
    /\ ChatOff
    /\ g_fn \in {"unified", "react"}
    /\ g_mode \in (IF g_fn = "unified" THEN PipelineModes ELSE {"autonomous"})
    /\ g_max \in (IF g_fn = "react" THEN 0..MaxGenIterations ELSE {0})
    /\ g_pos = "start" /\ g_i = (IF g_fn = "unified" THEN 1 ELSE 0)
    /\ g_dec = GenDecision("none", FALSE)
    /\ started = <<>> /\ finished = <<>> /\ delivered = <<>>
    /\ connected = TRUE

GenNext ==
    \/ GenUnifiedResume
    \/ GenReactResume
    \/ GenDisconnect

GenSpec == GenInit /\ [][GenNext]_vars

----------------------------------------------------------------------------
(* core/async_helpers.py: parallel_keyword_analysis.  asyncio.gather runs  *)
(* two async_extract_keywords coroutines; each hands its extraction to the *)
(* thread pool, and the two extractions finish in either order.            *)

\* The texts explored; a page without paragraphs gives the empty text.
KwTexts == {"", "mine", "theirs"}

\* extract_keywords_advanced(text, top_k): a list that depends on the text
\* alone, empty for the empty text.
ExtractKeywords(text) == IF text = "" THEN <<>> ELSE <<[kw |-> text]>>

KwTaskNew == [pc |-> "new", res |-> <<>>, out |-> "none"]

\* Variant of GatherResults: the results in the order of completion.
GatherResults_ByCompletion(task, order) ==
    <<task[order[1]].res, task[order[2]].res>>

\* results = await asyncio.gather(..., return_exceptions=True): the results
\* in the order of the arguments; my_kw, comp_kw = results[0], results[1]
\* (neither is an exception, each coroutine catches its own).
GatherResults(task, order) == <<task[1].res, task[2].res>>

\* async_extract_keywords up to its await: the import and run_in_executor;
\* an exception there is caught and the coroutine returns [].
KwSubmit ==
    /\ kw_pc = "gather"
    /\ \E i \in {1, 2} :
          /\ kw_task[i].pc = "new"
          /\ \E raised \in BOOLEAN :
                IF raised
                THEN /\ kw_task' = [kw_task EXCEPT ![i] =
                            [pc |-> "done", res |-> <<>>, out |-> "failed"]]
                     /\ kw_order' = Append(kw_order, i)
                ELSE /\ kw_task' = [kw_task EXCEPT ![i].pc = "running"]
                     /\ UNCHANGED kw_order
    /\ UNCHANGED <<kw_text, kw_pair, kw_pc>>
    /\ UNCHANGED notKwVars

\* The extraction ends in its worker thread and the coroutine resumes: it
\* returns the result, or [] from its except branch.
KwComplete ==
    /\ kw_pc = "gather"
    /\ \E i \in {1, 2} :
          /\ kw_task[i].pc = "running"
          /\ \E raised \in BOOLEAN :
                kw_task' = [kw_task EXCEPT ![i] =
                    IF raised
                    THEN [pc |-> "done", res |-> <<>>, out |-> "failed"]
                    ELSE [pc |-> "done", res |-> ExtractKeywords(kw_text[i]),
                          out |-> "ok"]]
          /\ kw_order' = Append(kw_order, i)
    /\ UNCHANGED <<kw_text, kw_pair, kw_pc>>
    /\ UNCHANGED notKwVars

\* gather is done when both coroutines are; return my_kw, comp_kw.
KwReturn ==
    /\ kw_pc = "gather"
    /\ \A i \in {1, 2} : kw_task[i].pc = "done"
    /\ kw_pair' = GatherResults(kw_task, kw_order)
    /\ kw_pc' = "returned"
    /\ UNCHANGED <<kw_text, kw_task, kw_order>>
    /\ UNCHANGED notKwVars

\* parallel_keyword_analysis(my_text, comp_text) has been called.
KwInit ==
    /\ RunOff /\ CacheOff /\ FetchOff /\ GenOff /\ second_run = FALSE
    /\ ChatOff
    /\ kw_text \in [{1, 2} -> KwTexts]
    /\ kw_task = [i \in {1, 2} |-> KwTaskNew]
    /\ kw_order = <<>> /\ kw_pair = <<>> /\ kw_pc = "gather"

KwNext ==
    \/ KwSubmit
    \/ KwComplete
    \/ KwReturn

KwSpec == KwInit /\ [][KwNext]_vars

----------------------------------------------------------------------------
(* chat_agent: the conversation memory *)

MAX_HISTORY == 20

ConversationIds == {"default", "c1"}

\* The stored messages, by role; their text is left out.
UserMsg == [role |-> "user"]

AssistantMsg(answer) == [role |-> "assistant"]

\* _conversations[conversation_id]: reading a defaultdict creates the key.
Touch(convs, cid) ==
    IF cid \in DOMAIN convs THEN convs
    ELSE [c \in DOMAIN convs \cup {cid} |->
             IF c = cid THEN <<>> ELSE convs[c]]

LastN(h, n) == IF Len(h) <= n THEN h ELSE SubSeq(h, Len(h) - n + 1, Len(h))

\* "if len(...) > MAX_HISTORY * 2: ... = ...[-MAX_HISTORY * 2:]"
Trim(h) ==
    IF Len(h) > MAX_HISTORY * 2 THEN LastN(h, MAX_HISTORY * 2) ELSE h

\* "Save to history" and "Trim history" of chat_sync and chat_stream.
SaveExchange(convs, cid, answer) ==
    LET c == Touch(convs, cid)
    IN  [c EXCEPT ![cid] = Trim(c[cid] \o <<UserMsg, AssistantMsg(answer)>>)]

\* chat_sync(message, conversation_id): llm.invoke answers or raises.
ChatSync ==
    /\ \E cid \in ConversationIds, out \in {"answer", "raise"} :
         conversations' =
            IF out = "raise" THEN Touch(conversations, cid)
            ELSE SaveExchange(conversations, cid, "answer")
    /\ chat' = After(chat, "chat_sync")
    /\ UNCHANGED notChatVars

\* chat_stream up to llm.astream: the history is read, nothing is stored.
ChatStreamStart ==
    /\ ~chat.active
    /\ \E cid \in ConversationIds :
         /\ chat' = After([active |-> TRUE, cid |-> cid,
                            full_response |-> ""], "start")
         /\ conversations' = Touch(conversations, cid)
    /\ UNCHANGED notChatVars

\* "full_response += token; yield token".
ChatStreamToken ==
    /\ chat.active /\ chat.full_response = ""
    /\ chat' = After([chat EXCEPT !.full_response = "answer"], "token")
    /\ UNCHANGED <<notChatVars, conversations>>

\* The stream ends: the exchange is saved and the history trimmed.
ChatStreamFinish ==
    /\ chat.active
    /\ conversations' =
          SaveExchange(conversations, chat.cid, chat.full_response)
    /\ chat' = After(NoChat, "finish")
    /\ UNCHANGED notChatVars

\* The model raises, or the caller stops reading: the generator ends
\* before "Save to history".
ChatStreamAbort ==
    /\ chat.active
    /\ chat' = After(NoChat, "abort")
    /\ UNCHANGED <<notChatVars, conversations>>

\* clear_conversation(conversation_id)
ClearConversation ==
    /\ \E cid \in ConversationIds :
         /\ cid \in DOMAIN conversations
         /\ conversations' =
               [c \in DOMAIN conversations \ {cid} |-> conversations[c]]
    /\ chat' = After(chat, "clear")
    /\ UNCHANGED notChatVars

ChatInit ==
    /\ RunOff /\ CacheOff /\ FetchOff /\ GenOff /\ KwOff
    /\ second_run = FALSE
    /\ ChatOff

ChatNext ==
    \/ ChatSync
    \/ ChatStreamStart
    \/ ChatStreamToken
    \/ ChatStreamFinish
    \/ ChatStreamAbort
    \/ ClearConversation

ChatSpec == ChatInit /\ [][ChatNext]_vars

----------------------------------------------------------------------------
(* The run *)

Init ==
    /\ orch \in {"react", "unified", "graph"}
    /\ streaming \in (IF orch = "graph" THEN {TRUE} ELSE BOOLEAN)
    /\ mode \in (CASE orch = "react" -> {"autonomous"}
                   [] orch = "unified" -> PipelineModes
                   [] OTHER -> {"graph"})
    /\ max_iterations \in (IF orch = "react" THEN 0..MaxIterations ELSE {0})
    /\ pc = (CASE orch = "react" -> "loop"
               [] orch = "unified" -> "nodes"
               [] OTHER -> "phases")
    /\ result = "pending"
    /\ iteration = 0
    /\ completed_actions = <<>>
    /\ findings = <<>>
    /\ total_cost_estimate = 0
    /\ reasoning_log = <<>>
    /\ decision = NoDecision
    /\ llm_log = <<>>
    /\ tool_log = <<>>
    /\ node_idx = 1
    /\ logs = <<>>
    /\ seo_data = "empty"
    /\ node_log = <<>>
    /\ node_state = <<>>
    /\ events = IF orch = "react" /\ streaming
                THEN <<LogEv("init", "running")>> ELSE <<>>
    /\ report = <<>>
    /\ CacheOff /\ OtherOff

Next ==
    \/ ReactLoop
    \/ ReactDecide
    \/ ReactExecute
    \/ ReactCompile
    \/ UnifiedNode
    \/ UnifiedFinish
    \/ GraphPhase
    \/ GraphFinish

Spec == Init /\ [][Next]_vars

----------------------------------------------------------------------------
(* A second run on the same orchestrator object *)

\* Largest max_iterations explored when the object is used twice.
MaxRerunIterations == 1

\* ReActOrchestrator.execute / execute_stream called again on the same
\* object: self.state is assigned a new dict; self.reasoning_log, made in
\* __init__, is not assigned.  The history variables restart with the run.
ReactRerun ==
    /\ orch = "react" /\ pc \in {"done", "raised"} /\ ~second_run
    /\ second_run' = TRUE
    /\ iteration' = 0 /\ completed_actions' = <<>> /\ findings' = <<>>
    /\ total_cost_estimate' = 0
    /\ decision' = NoDecision /\ llm_log' = <<>> /\ tool_log' = <<>>
    /\ events' = IF streaming THEN <<LogEv("init", "running")>> ELSE <<>>
    /\ report' = <<>> /\ result' = "pending" /\ pc' = "loop"
    /\ UNCHANGED <<reasoning_log, inputVars, pipeVars, cacheVars, fetchVars,
                   genVars, kwVars, chatVars>>

\* UnifiedScanOrchestrator.execute / execute_stream called again on the same
\* object: self.state is assigned a new dict, "logs" included.
UnifiedRerun ==
    /\ orch = "unified" /\ pc \in {"done", "raised"} /\ ~second_run
    /\ second_run' = TRUE
    /\ node_idx' = 1 /\ logs' = <<>> /\ seo_data' = "empty"
    /\ node_log' = <<>> /\ node_state' = <<>>
    /\ events' = <<>> /\ report' = <<>> /\ result' = "pending"
    /\ pc' = "nodes"
    /\ UNCHANGED <<reactVars, inputVars, cacheVars, fetchVars, genVars,
                   kwVars, chatVars>>

RerunInit == Init /\ max_iterations <= MaxRerunIterations

RerunNext ==
    \/ Next
    \/ ReactRerun
    \/ UnifiedRerun

RerunSpec == RerunInit /\ [][RerunNext]_vars

----------------------------------------------------------------------------
(* Properties of the autonomous loop and of the event streams *)

Ended == pc \in {"done", "raised"}

TerminalIndexes == {i \in 1..Len(events) : events[i].ev \in TerminalEvents}

\* The language model's answer is a known tool, not STOP, stop_after false.
ValidContinue(resp) ==
    /\ resp.kind = "object"
    /\ resp.next_action \in AVAILABLE_TOOLS
    /\ ~resp.stop_after

\* C1: in an autonomous run the iteration counter never exceeds
\* max_iterations and at most max_iterations tool executions are made,
\* whatever the decision function answers.
C1_CircuitBreaker ==
    orch = "react" =>
        /\ iteration <= max_iterations
        /\ Len(tool_log) <= max_iterations

\* A run whose decision function always asked to continue used the whole
\* budget.
C1_Witness ==
    /\ orch = "react" /\ pc = "done"
    /\ max_iterations >= 2
    /\ Len(tool_log) = max_iterations
    /\ \A i \in 1..Len(llm_log) : ValidContinue(llm_log[i])

\* C2: every autonomous run reaches stopped and compiles the final report:
\* a run that has ended has ended with the compiled report, not with an
\* exception.
C2_Terminates ==
    (orch = "react" /\ Ended) => (pc = "done" /\ report # <<>>)

\* C3: when a streaming run has ended, its event sequence holds exactly one
\* terminal event (done or error) and that event is the last one.
C3_OneTerminalLast ==
    (streaming /\ Ended) =>
        /\ Cardinality(TerminalIndexes) = 1
        /\ Last(events).ev \in TerminalEvents

\* C4: a streaming run that has emitted an event never ends with a
\* non-terminal event as its last event.
C4_EndsWithTerminal ==
    (streaming /\ Ended /\ events # <<>>) => Last(events).ev \in TerminalEvents

\* C5: in a mode pipeline run, buffered or streaming, a raising step other
\* than the fetch step is recorded with an error log entry, every later step
\* of the mode's list is still invoked and the caller gets no exception.
C5_StepFailureIsolated ==
    (orch = "unified" /\ Ended) =>
        \A i \in 1..Len(node_log) :
            (node_log[i].outcome = "raise" /\ node_log[i].node # "scrape") =>
                /\ LogEntry(node_log[i].node, "error") \in Range(logs)
                /\ Len(node_log) = Len(Nodes(mode))
                /\ result # "raised"

\* C6: once the fetch step has returned its fetch error no later analysis
\* step is invoked and the final report holds only the fatal message.
C6_FetchFailureFatal ==
    (orch \in {"unified", "graph"} /\ seo_data = "error") =>
        /\ \A i \in 1..Len(node_log) : node_log[i].node \in {"scrape", "fetch"}
        /\ (report # <<>> => DOMAIN report[1] = {"error"})

\* C7: every key of findings occurs in completed_actions and its value is
\* the output of a non-error execution.
C7_FindingsOnlySuccess ==
    orch = "react" =>
        \A k \in DOMAIN findings :
            /\ k \in Range(completed_actions)
            /\ findings[k] \in {"ok", "ok_notitle"}

\* The last answer of the language model could not be parsed into a
\* structured decision.
ParseFailed ==
    /\ llm_log # <<>>
    /\ Last(llm_log).kind \in {"malformed", "non_object"}

C9_ThreeTriggersOnly ==
    [][(orch = "react" /\ pc # "compile" /\ pc' = "compile") =>
         \/ /\ pc = "deciding"
            /\ decision'.kind = "object" /\ decision'.next_action = "STOP"
            /\ tool_log' = tool_log
         \/ /\ pc = "executing"
            /\ decision.stop_after
            /\ Len(tool_log') = Len(tool_log) + 1
         \/ /\ pc = "loop"
            /\ iteration >= max_iterations]_vars

\* C9 amended: the loop enters stopped only by a STOP decision, by
\* _reason_next_action giving no decision (None after an exception inside it,
\* or an empty object), by stop_after after _execute_action (which runs the
\* named step once if it is a known tool and nothing otherwise), or by
\* iteration >= max_iterations at the loop test.  A failing step alone never
\* stops the loop.
C9_StopTriggers ==
    [][(orch = "react" /\ pc # "compile" /\ pc' = "compile") =>
         \/ /\ pc = "deciding"
            /\ \/ decision'.kind \in {"none", "empty"}
               \/ decision'.next_action = "STOP"
            /\ tool_log' = tool_log
         \/ /\ pc = "executing"
            /\ decision.stop_after
            /\ Len(tool_log') =
                 Len(tool_log) +
                 (IF decision.next_action \in AVAILABLE_TOOLS THEN 1 ELSE 0)
         \/ /\ pc = "loop"
            /\ iteration >= max_iterations]_vars

\* The loop stopped, below its budget, because the model call raised.
C9_Witness ==
    /\ orch = "react" /\ pc = "compile"
    /\ decision = NoDecision
    /\ llm_log # <<>> /\ Last(llm_log).kind = "llm_raise"
    /\ iteration < max_iterations
    /\ tool_log # <<>> /\ Last(tool_log).outcome = "raise"

\* C10: if the decision function always answers a valid non-STOP action
\* asking to continue, the run makes exactly max_iterations step executions
\* and ends with iteration = max_iterations.
C10_ExactlyNSteps ==
    (/\ orch = "react"
     /\ pc \in {"compile", "done", "raised"}
     /\ \A i \in 1..Len(llm_log) : ValidContinue(llm_log[i])) =>
        /\ Len(tool_log) = max_iterations
        /\ iteration = max_iterations

----------------------------------------------------------------------------
(* Properties of the pipelines: event order, dependencies, error reporting *)

IsLogEvent(e) == e.ev = "log"

IsRaise(e) == e.outcome = "raise"

\* The steps that raised, in the order they raised.
RaisedNodes == LET f == SelectSeq(node_log, IsRaise)
               IN [i \in 1..Len(f) |-> f[i].node]

RaisedTools == LET f == SelectSeq(tool_log, IsRaise)
               IN [i \in 1..Len(f) |-> f[i].tool]

\* The errors list of a final report; the reports the code builds have no
\* such field.
ReportErrors(r) == IF "errors" \in DOMAIN r THEN r.errors ELSE <<>>

\* C11: in a streaming pipeline run the log events are exactly the entries of
\* state["logs"], in append order and none lagging behind; a data event is
\* emitted only for a step that has run without raising; a done event is the
\* last event.
C11_EventsFollowLog ==
    (orch \in {"unified", "graph"} /\ streaming) =>
        /\ SelectSeq(events, IsLogEvent) =
              [i \in 1..Len(logs) |->
                  [ev |-> "log", step |-> logs[i].step, status |-> logs[i].status]]
        /\ \A i \in 1..Len(events) :
              events[i].ev \notin {"log", "done", "error"} =>
                  \E j \in 1..Len(node_log) :
                      /\ node_log[j].node = events[i].step
                      /\ node_log[j].outcome # "raise"
        /\ \A i \in 1..Len(events) :
              events[i].ev = "done" => i = Len(events)

\* A finished streaming pipeline run in which a step raised and a later step
\* yielded its data.
C11_Witness ==
    /\ orch = "unified" /\ streaming /\ pc = "done"
    /\ \E i \in 1..Len(node_log) : node_log[i].outcome = "raise"
    /\ Len(logs) = 2 * Len(Nodes(mode))
    /\ \E i \in 1..Len(events) : events[i].ev = "seo_score"

\* C12: a step whose dependency failed is still invoked and is handed the
\* default value for the dependency's finding, never the error record.
C12_DegradedDependency ==
    /\ orch = "react" =>
          \A i \in 1..Len(tool_log) :
              tool_log[i].scraped \notin {"error_marker", "exception_record"}
    /\ (orch = "unified" /\ Ended) => Len(node_log) = Len(Nodes(mode))

\* C13: the nodes of a pipeline run are started in the order of the mode's
\* list, and a node that failed has left nothing in the run state.
C13_OrderByMode ==
    orch = "unified" =>
        /\ \A i \in 1..Len(node_log) : node_log[i].node = Nodes(mode)[i]
        /\ \A i \in 1..Len(node_log) :
              node_log[i].outcome \in {"raise", "error_marker"} =>
                  node_log[i].node \notin DOMAIN node_state

\* C14: the final report lists, in order, every step that failed in the run.
C14_ErrorsReported ==
    /\ (orch = "unified" /\ pc = "done") =>
          [i \in 1..Len(ReportErrors(report[1])) |->
              ReportErrors(report[1])[i]] = RaisedNodes
    /\ (orch = "react" /\ pc = "done") =>
          [i \in 1..Len(ReportErrors(report[1])) |->
              ReportErrors(report[1])[i]] = RaisedTools

\* C15: running a step whose name is not in the registry leaves an explicit
\* error in the run state and is not reported as a completed step.
C15_UnknownStepIsError ==
    (/\ orch = "react"
     /\ decision.kind = "object" /\ decision.next_action = "unknown_tool"
     /\ pc \in {"loop", "compile", "done"}) =>
        /\ "unknown_tool" \in DOMAIN findings
        /\ LogEv("unknown_tool", "done") \notin Range(events)

----------------------------------------------------------------------------
(* Properties of the scrape cache, one scan at a time *)

\* Two calls for the same url with no call for that url between them.
NextCallFor(i, j) ==
    /\ i < j /\ calls[i].url = calls[j].url
    /\ \A k \in (i + 1)..(j - 1) : calls[k].url # calls[i].url

\* C16 as stated: two calls for the same url that start less than TTL apart
\* perform one network fetch between them, and the second is a cache hit.
C16_OneFetchWithinTTL ==
    \A i, j \in 1..Len(calls) :
        (NextCallFor(i, j)
         /\ calls[j].start - calls[i].start < CACHE_TTL_SECONDS) =>
            /\ calls[i].fetches + calls[j].fetches = 1
            /\ calls[j].outcome = "hit"

\* C16: once a call has fetched a page and stored it at time t, every later
\* call for that url that starts before t + TTL, with no eviction of the
\* url by a call between them, performs no fetch and returns the stored
\* dict.
C16_FetchedThenServed ==
    \A i, j \in 1..Len(calls) :
        (/\ i < j /\ calls[i].url = calls[j].url
         /\ calls[i].outcome = "fetched"
         /\ calls[j].start - calls[i].stored_at < CACHE_TTL_SECONDS
         /\ \A k \in i..(j - 1) :
               /\ calls[k].evicted # calls[i].url
               /\ (k > i /\ calls[k].url = calls[i].url) =>
                     calls[k].outcome = "hit") =>
            /\ calls[j].outcome = "hit"
            /\ calls[j].fetches = 0
            /\ calls[j].ret.id = calls[i].ret.id

\* A call that fetched with the Playwright fallback, and a later call for
\* the same url answered from the cache.
C16_Witness ==
    /\ Len(calls) = 2
    /\ calls[1].outcome = "fetched" /\ calls[1].fetches = 2
    /\ calls[2].url = calls[1].url /\ calls[2].outcome = "hit"
    /\ calls[2].start > calls[1].stored_at

\* C17: _cache_get(url) returns the stored value exactly when url has an
\* entry stored less than TTL ago, and then changes nothing; otherwise it
\* returns a miss and leaves the cache without an entry for url, every other
\* entry as it was.
C17_GetContract ==
    [][(op'.n # op.n /\ op'.name = "get") =>
          LET url == op'.url
              young == \E i \in 1..Len(scrape_cache) :
                          /\ scrape_cache[i].url = url
                          /\ now - scrape_cache[i].ts < 300
              other(e) == e.url # url
          IN  /\ (op'.ret # NoData) <=> young
              /\ young =>
                    /\ \E i \in 1..Len(scrape_cache) :
                          /\ scrape_cache[i].url = url
                          /\ op'.ret = scrape_cache[i].data
                    /\ scrape_cache' = scrape_cache
              /\ ~young =>
                    /\ \A i \in 1..Len(scrape_cache') :
                          scrape_cache'[i].url # url
                    /\ scrape_cache' = SelectSeq(scrape_cache, other)
       ]_vars

\* A hit on an entry one second short of TTL, then a miss on an entry
\* exactly TTL old, which is gone afterwards.
C17_Witness ==
    /\ Len(calls) = 1 /\ calls[1].outcome = "hit"
    /\ calls[1].url = ExpiredPrefix + 1
    /\ calls[1].start - (ExpiredPrefix + 1) = CACHE_TTL_SECONDS - 1
    /\ spc = "fetch" /\ op.name = "get" /\ op.ret = NoData
    /\ op.url = ExpiredPrefix /\ op.at - ExpiredPrefix = CACHE_TTL_SECONDS
    /\ Len(scrape_cache) = CACHE_MAX_SIZE - 1

\* C18: the cache never holds more than _CACHE_MAX_SIZE entries; a
\* _cache_set at the limit removes one entry, one with the smallest ts, a
\* _cache_set below the limit removes none; afterwards the key holds the
\* value, which a get returns until TTL has passed.
C18_SetContract ==
    /\ [](Len(scrape_cache) <= 50)
    /\ [][(op'.n # op.n /\ op'.name = "set") =>
             LET before == Range(scrape_cache)
                 after == Range(scrape_cache')
                 new == [url |-> op'.url, data |-> op'.ret, ts |-> now]
                 full == Len(scrape_cache) >= 50
             IN  /\ new \in after
                 /\ \A e \in after : e.url = op'.url => e = new
                 /\ ~full =>
                       /\ after = before \cup {new}
                       /\ Len(scrape_cache') = Len(scrape_cache) + 1
                 /\ full =>
                       /\ \E e \in before :
                             /\ after = (before \ {e}) \cup {new}
                             /\ \A f \in before : e.ts <= f.ts
                       /\ Len(scrape_cache') = Len(scrape_cache)
                 /\ \A d \in {0, 1, 299} :
                       cache_get(scrape_cache', op'.url, now + d).ret = op'.ret
          ]_vars

\* A set at the limit has removed the oldest entry while that entry was
\* still fresh, after a call had read another entry.
C18_Witness ==
    /\ op.name = "set" /\ op.url = CACHE_MAX_SIZE + 1
    /\ Len(scrape_cache) = CACHE_MAX_SIZE
    /\ ~HasKey(scrape_cache, 1) /\ HasKey(scrape_cache, 2)
    /\ op.at - 1 < CACHE_TTL_SECONDS
    /\ Len(calls) = 2 /\ calls[1].outcome = "hit"
    /\ calls[2].evicted = 1

\* C19: no cached value has an error field; after a call returned a fetch
\* error the cache has no entry for its url, and the next call for that url
\* fetches again.
C19_OnlySuccessCached ==
    /\ \A i \in 1..Len(scrape_cache) :
          "error" \notin scrape_cache[i].data.fields
    /\ (spc = "idle" /\ calls # <<>> /\ Last(calls).outcome = "error") =>
          ~HasKey(scrape_cache, Last(calls).url)
    /\ \A i, j \in 1..Len(calls) :
          (NextCallFor(i, j) /\ calls[i].outcome = "error") =>
              /\ calls[j].outcome # "hit"
              /\ calls[j].fetches >= 1

\* A call returned a fetch error and the next call for the same url fetched
\* and stored the page.
C19_Witness ==
    /\ Len(calls) = 2 /\ calls[1].outcome = "error"
    /\ calls[2].url = calls[1].url /\ calls[2].outcome = "fetched"
    /\ HasKey(scrape_cache, calls[2].url)

----------------------------------------------------------------------------
(* Properties of the scrape cache under two concurrent scans *)

\* C20: whatever the interleaving of two scans, no smart_scrape_url call
\* raises inside _cache_get or _cache_set, and the cache never holds more
\* than _CACHE_MAX_SIZE entries.
C20_ConcurrentSafe ==
    /\ \A t \in DOMAIN th : th[t].pc # "failed"
    /\ Len(scrape_cache) <= CACHE_MAX_SIZE

----------------------------------------------------------------------------
(* Properties of the fetchers *)

\* The positions of the attempts of one tier.
TierIndexes(tier) == {i \in 1..Len(tiers) : tiers[i].tier = tier}

\* A transfer that produced no page.
TransferFailed(out) == out \notin {"ok_marker", "ok_nomarker", "html"}

\* C21: the tiers come in a fixed order.  In fetch_page_pure the requests
\* transfer runs only after the httpx transfer raised, Playwright only after
\* both failed, each once.  In smart_scrape_url Playwright runs once, only
\* right after a scrape_url that failed or found no structured data;
\* scrape_url makes at most max_retries + 1 requests and only a timeout is
\* followed by another request.
C21_TierOrder ==
    /\ fetch_fn = "fetch_page_pure" =>
          /\ \A tier \in {"httpx", "requests", "playwright"} :
                Cardinality(TierIndexes(tier)) <= 1
          /\ \A i \in TierIndexes("requests") :
                \E j \in 1..(i - 1) : tiers[j] = [tier |-> "httpx",
                                                  outcome |-> "raise"]
          /\ \A i \in TierIndexes("playwright") :
                /\ \E j \in 1..(i - 1) :
                      tiers[j].tier = "httpx" /\ tiers[j].outcome = "raise"
                /\ \E j \in 1..(i - 1) :
                      /\ tiers[j].tier = "requests"
                      /\ TransferFailed(tiers[j].outcome)
    /\ fetch_fn = "smart_scrape_url" =>
          /\ Cardinality(TierIndexes("playwright")) <= 1
          /\ \A i \in TierIndexes("playwright") :
                /\ i = Len(tiers) /\ i > 1
                /\ tiers[i - 1].tier = "requests"
                /\ tiers[i - 1].outcome # "ok_marker"
          /\ Cardinality(TierIndexes("requests")) <= retries + 1
          /\ \A i, j \in TierIndexes("requests") :
                i < j => tiers[i].outcome = "timeout"

\* scrape_url timed out on every one of its max_retries + 1 requests, then
\* Playwright fetched the page.
C21_Witness ==
    /\ fetch_fn = "smart_scrape_url" /\ fetch_pc = "done"
    /\ retries = MaxRetries /\ Len(tiers) = retries + 2
    /\ \A i \in 1..(retries + 1) :
          tiers[i] = [tier |-> "requests", outcome |-> "timeout"]
    /\ tiers[retries + 2] = [tier |-> "playwright", outcome |-> "html"]
    /\ fetch_result.kind = "ok"

\* C22: a finished fetch has returned (never raised); it returned an error
\* exactly when every transfer it attempted failed; and when scrape_url got
\* a page and the Playwright escalation failed, the scrape_url page is the
\* result.
C22_ErrorIffAllFailed ==
    fetch_pc \in {"done", "raised"} =>
        /\ fetch_result.kind \in {"ok", "error"}
        /\ fetch_result.kind = "error" <=>
              \A i \in 1..Len(tiers) : TransferFailed(tiers[i].outcome)
        /\ (/\ Len(tiers) > 1
            /\ tiers[Len(tiers)].tier = "playwright"
            /\ tiers[Len(tiers)].outcome # "html"
            /\ tiers[Len(tiers) - 1].outcome \in TransferOk) =>
              fetch_result = [kind |-> "ok", src |-> "requests"]

----------------------------------------------------------------------------
(* Properties of the streaming generators *)

\* How many times event e was delivered.
CountDelivered(e) == Cardinality({i \in 1..Len(delivered) : delivered[i] = e})

\* The event that announces a step: the "running" log of a node, the
\* "Executing" log of an action.
Announce == IF g_fn = "unified" THEN "log:running" ELSE "log:executing"

\* C23: at every yield each step that was started has run to its end; a step
\* has started only if the caller asked for an event after the one that
\* announces it; and once the caller has stopped consuming no step starts.
C23_Cancellation ==
    /\ [](/\ finished = started
          /\ Len(started) <= CountDelivered(Announce)
                               - (IF g_pos \in {"running", "executing"}
                                  THEN 1 ELSE 0)
          /\ g_fn = "unified" =>
                Len(started) = CountDelivered(Announce)
                                 - (IF g_pos = "running" THEN 1 ELSE 0))
    /\ [][~connected => (started' = started /\ delivered' = delivered)]_vars

\* The caller left at the "running" log of the second node: the first node
\* has run to its end, the second was never started.
C23_Witness ==
    /\ g_fn = "unified" /\ ~connected /\ g_pos = "running"
    /\ CountDelivered("log:running") = 2
    /\ started = <<"scrape">> /\ finished = <<"scrape">>

----------------------------------------------------------------------------
(* Properties of parallel_keyword_analysis *)

\* C24: the call returns a pair, whatever the order of completion; each
\* component is the extraction of its own text, or the empty list when that
\* extraction failed.
C24_PairOwnResults ==
    kw_pc = "returned" =>
        /\ Len(kw_pair) = 2
        /\ \A i \in {1, 2} :
              kw_pair[i] = IF kw_task[i].out = "ok" /\ kw_text[i] # ""
                           THEN <<[kw |-> kw_text[i]]>> ELSE <<>>

\* The second extraction finished first and succeeded, the first failed in
\* its worker thread.
C24_Witness ==
    /\ kw_pc = "returned" /\ kw_order = <<2, 1>>
    /\ kw_text[1] = "mine" /\ kw_text[2] = "theirs"
    /\ kw_task[1].out = "failed" /\ kw_task[2].out = "ok"
    /\ kw_pair = <<<<>>, <<[kw |-> kw_text[2]]>>>>

----------------------------------------------------------------------------
(* Properties of the autonomous run state *)

\* The sum of the declared cost weights of the tools in a log of calls.
RECURSIVE SumWeights(_)
SumWeights(log) ==
    IF log = <<>> THEN 0
    ELSE cost_map(ToolCostClass(log[1].tool)) + SumWeights(Tail(log))

\* C25: the cost estimate is the sum of the declared weights of all the
\* steps that were run, whether they succeeded or failed.
C25_CostIsSumOfSteps ==
    orch = "react" => total_cost_estimate = SumWeights(tool_log)

\* The positions in tool_log of the successful runs of tool t.
SuccessfulRuns(t) ==
    {i \in 1..Len(tool_log) :
        tool_log[i].tool = t /\ tool_log[i].outcome \in {"ok", "ok_notitle"}}

\* C26: findings[t] is the output of the last successful run of t: a later
\* failed run of t leaves it as it was.
C26_LastSuccessKept ==
    orch = "react" =>
        \A t \in DOMAIN findings :
            SuccessfulRuns(t) # {} =>
                LET last == CHOOSE i \in SuccessfulRuns(t) :
                                \A j \in SuccessfulRuns(t) : j <= i
                IN  findings[t] = tool_log[last].outcome

----------------------------------------------------------------------------
(* Properties of an orchestrator object used twice *)

\* C27: every run starts from an empty run state: at the start of a run
\* findings, executed steps, reasoning log and logs are empty, iteration and
\* cost are zero.
C27_RunStartsEmpty ==
    /\ (orch = "react" /\ pc = "loop" /\ iteration = 0) =>
          /\ findings = <<>> /\ completed_actions = <<>>
          /\ total_cost_estimate = 0
          /\ reasoning_log = <<>>
    /\ (orch = "unified" /\ pc = "nodes" /\ node_idx = 1) =>
          /\ logs = <<>> /\ node_state = <<>> /\ seo_data = "empty"

----------------------------------------------------------------------------
(* Properties of the dict a cache hit returns *)

\* C28: a cache hit returns the fetch result as it was stored: a call
\* answered from the cache with the dict an earlier call fetched returns
\* the fields that fetch produced, whatever the callers did in between.
C28_HitReturnsFetched ==
    \A i, j \in 1..Len(calls) :
        (/\ i < j
         /\ calls[i].outcome = "fetched" /\ calls[j].outcome = "hit"
         /\ calls[j].ret.id = calls[i].ret.id) =>
            calls[j].ret.fields = calls[i].ret.fields

----------------------------------------------------------------------------
(* The buffered run, replayed on what a streaming run was given *)

\* The run state execute starts from.
ExecuteStart ==
    [iteration |-> 0, completed_actions |-> <<>>, findings |-> <<>>,
     total_cost_estimate |-> 0, reasoning_log |-> <<>>, pc |-> "loop"]

\* ReActOrchestrator.execute fed the model answers L and the tool outcomes
\* T, one per call, up to the point where it asks for an answer or an
\* outcome that L or T does not hold, or leaves the loop, or raises.
RECURSIVE ExecuteLoop(_, _, _)
ExecuteLoop(st, L, T) ==
    IF ~(st.iteration < max_iterations)
    THEN [st EXCEPT !.pc = "compile"]
    ELSE
    LET s1 == [st EXCEPT !.iteration = @ + 1] IN
    IF SummarizeRaises(s1.findings)
    THEN [s1 EXCEPT !.pc = "compile"]
    ELSE IF L = <<>>
    THEN [s1 EXCEPT !.pc = "deciding"]
    ELSE
    LET d  == ReasonNextAction(Head(L))
        s2 == IF d = NoDecision THEN s1
              ELSE [s1 EXCEPT !.reasoning_log =
                        Append(@, [iteration |-> s1.iteration,
                                   action |-> d.next_action])]
        a  == d.next_action
    IN
    IF d.kind # "object" \/ a = "STOP"
    THEN [s2 EXCEPT !.pc = "compile"]
    ELSE IF a = Unhashable
    THEN [s2 EXCEPT !.pc = "raised"]
    ELSE IF a \notin AVAILABLE_TOOLS
    THEN IF d.stop_after THEN [s2 EXCEPT !.pc = "compile"]
         ELSE ExecuteLoop(s2, Tail(L), T)
    ELSE IF T = <<>>
    THEN [s2 EXCEPT !.pc = "executing"]
    ELSE
    LET out == Head(T).outcome
        s3  == [s2 EXCEPT
                  !.findings = FindingsAfter(@, a, out),
                  !.completed_actions = CompletedAfter(@, a, out),
                  !.total_cost_estimate = CostAfter(@, a, out)]
    IN  IF d.stop_after THEN [s3 EXCEPT !.pc = "compile"]
        ELSE ExecuteLoop(s3, Tail(L), Tail(T))

\* The report execute returns from the run state st.
ExecuteReport(st) ==
    [mode |-> "autonomous",
     iterations_used |-> st.iteration,
     max_iterations |-> max_iterations,
     tools_executed |-> st.completed_actions,
     cost_estimate |-> st.total_cost_estimate,
     findings |-> st.findings,
     reasoning_log |-> st.reasoning_log]

\* The points where a run waits for an answer or an outcome, or has left
\* the loop.
AtInput ==
    \/ pc \in {"deciding", "compile", "done", "raised"}
    \/ pc = "executing" /\ decision.next_action \in AVAILABLE_TOOLS

\* C29: a streaming autonomous run goes through the run states of the
\* buffered run given the same decisions and step outcomes (same executed
\* steps in the same order, same findings, iteration, cost and reasoning
\* log), and the payload of its done event is the report execute returns.
C29_StreamEqualsBuffered ==
    (orch = "react" /\ streaming /\ AtInput) =>
        LET e == ExecuteLoop(ExecuteStart, llm_log, tool_log) IN
        /\ iteration = e.iteration
        /\ completed_actions = e.completed_actions
        /\ findings = e.findings
        /\ total_cost_estimate = e.total_cost_estimate
        /\ reasoning_log = e.reasoning_log
        /\ pc = "executing" <=> e.pc = "executing"
        /\ e.pc = "raised" => pc = "raised"
        /\ pc = "done" =>
              /\ e.pc = "compile"
              /\ report = <<ExecuteReport(e)>>
              /\ events[Len(events)].ev = "done"

\* A streaming run that executed two steps, one of them failing, and then
\* delivered its report.
C29_Witness ==
    /\ orch = "react" /\ streaming /\ pc = "done"
    /\ Len(tool_log) >= 2
    /\ \E i \in 1..Len(tool_log) : tool_log[i].outcome = "raise"
    /\ report = <<ExecuteReport(ExecuteLoop(ExecuteStart, llm_log, tool_log))>>

----------------------------------------------------------------------------
(* Properties of the conversation memory *)

\* C30: the stored history of every conversation holds at most MAX_HISTORY
\* messages, user message then assistant answer for each exchange.
C30_HistoryBounded ==
    \A cid \in DOMAIN conversations :
        LET h == conversations[cid] IN
        /\ Len(h) <= MAX_HISTORY
        /\ \A i \in 1..Len(h) :
              h[i].role = IF i % 2 = 1 THEN "user" ELSE "assistant"

====
